---- MODULE Spec2Model ----
(***************************************************************************)
(* Model of load_dictionaries_async.py: the DictionaryLoader singleton,    *)
(* its unsynchronised __new__/_initialize, and _load_all_dictionaries,     *)
(* which fans the registry's load tasks out to a ThreadPoolExecutor and    *)
(* collects them with as_completed.                                        *)
(*                                                                         *)
(* Consumer threads call DictionaryLoader() and read attributes of the     *)
(* instance they were handed.  Every bytecode-level read or write of the   *)
(* shared class attribute _instance and of the instance attributes is a    *)
(* step of its own, so that the interleavings CPython allows are the       *)
(* interleavings of the model.                                             *)
(***************************************************************************)
EXTENDS Integers, Sequences, FiniteSets, TLC

\* ---------------------------------------------------------------- bounds
\* number of consumer threads that may call DictionaryLoader()
NumThreads == 2
\* how many entries of the registry (the first ones of the list in
\* _load_all_dictionaries) the racing threads of Spec load
NumTasks == 2
\* how many entries (the last ones of the list, which hold both file
\* extensions) the single caller of SpecPool loads: more than max_workers,
\* so that work items have to queue
PoolTasks == 5
\* at most this many artifact files are missing or undecodable
MaxBad == 1

\* ------------------------------------------------------ program constants
None == 0
max_workers == 4

Threads == 1..NumThreads

\* ------------------------------------------------------------- registry
\* _setup_paths: a path is <<directory, stem, extension>>
PathsOnInstance ==
  [ LABEL_FILE_PATH |-> <<"yago", "yago-wd-labels_dict", ".pickle">>,
    TYPE_FILE_PATH |-> <<"yago", "yago-wd-full-types_dict", ".pickle">>,
    CLASS_FILE_PATH |-> <<"yago", "yago-wd-class_dict", ".pickle">>,
    FACT_FILE_PATH |-> <<"yago", "yago-wd-facts_dict", ".pickle">>,
    YAGO_MAIN_INVERTED_INDEX_PATH |->
      <<"santos/hashmap", "dialite_datalake_main_yago_index", ".pickle">>,
    YAGO_MAIN_RELATION_INDEX_PATH |->
      <<"santos/hashmap", "dialite_datalake_main_relation_index", ".pickle">>,
    YAGO_MAIN_PICKLE_TRIPLE_INDEX_PATH |->
      <<"santos/hashmap", "dialite_datalake_main_triple_index", ".pickle">>,
    SYNTH_TYPE_KB_PATH |->
      <<"santos/hashmap", "dialite_datalake_synth_type_kb", ".pbz2">>,
    SYNTH_RELATION_KB_PATH |->
      <<"santos/hashmap", "dialite_datalake_synth_relation_kb", ".pbz2">>,
    SYNTH_TYPE_INVERTED_INDEX_PATH |->
      <<"santos/hashmap", "dialite_datalake_synth_type_inverted_index", ".pbz2">>,
    SYNTH_RELATION_INVERTED_INDEX_PATH |->
      <<"santos/hashmap", "dialite_datalake_synth_relation_inverted_index", ".pbz2">> ]

\* the list built at the top of _load_all_dictionaries, in source order
AllLoadTasks ==
  LET P == PathsOnInstance IN
  << <<P.LABEL_FILE_PATH, "label_dict">>,
     <<P.TYPE_FILE_PATH, "type_dict">>,
     <<P.CLASS_FILE_PATH, "class_dict">>,
     <<P.FACT_FILE_PATH, "fact_dict">>,
     <<P.YAGO_MAIN_INVERTED_INDEX_PATH, "yago_inverted_index">>,
     <<P.YAGO_MAIN_RELATION_INDEX_PATH, "yago_relation_index">>,
     <<P.YAGO_MAIN_PICKLE_TRIPLE_INDEX_PATH, "main_index_triples">>,
     <<P.SYNTH_TYPE_KB_PATH, "synth_type_kb">>,
     <<P.SYNTH_RELATION_KB_PATH, "synth_relation_kb">>,
     <<P.SYNTH_TYPE_INVERTED_INDEX_PATH, "synth_type_inverted_index">>,
     <<P.SYNTH_RELATION_INVERTED_INDEX_PATH, "synth_relation_inverted_index">> >>

\* the part of the registry a process is started with
FirstTasks(n) == SubSeq(AllLoadTasks, 1, n)
LastTasks(n) == SubSeq(AllLoadTasks, Len(AllLoadTasks) - n + 1, Len(AllLoadTasks))

VARIABLES
  load_tasks,    \* the list of (path, attr_name) pairs of _load_all_dictionaries
  callers        \* the threads that call DictionaryLoader()

TaskIds == 1..Len(load_tasks)
PathOf(j) == load_tasks[j][1]
AttrOf(j) == load_tasks[j][2]
Keys == {AttrOf(j) : j \in TaskIds}

\* ------------------------------------------------------------ filesystem
\* A file is what is on disk at a path: nothing, the pickle of a mapping,
\* the bz2 stream of the pickle of a mapping, or bytes that are neither.
\* The mapping stored for the j-th registry entry is identified by j.
Absent == [kind |-> "absent", obj |-> None]
Garbage == [kind |-> "garbage", obj |-> None]
RawFile(o) == [kind |-> "pickle", obj |-> o]
Bz2File(o) == [kind |-> "bz2", obj |-> o]

\* for the j-th entry of the task list L
WellFormed(L, j) ==
  IF L[j][1][3] = ".pickle" THEN RawFile(j) ELSE Bz2File(j)
WrongFormat(L, j) ==
  IF L[j][1][3] = ".pickle" THEN Bz2File(j) ELSE RawFile(j)
BadKinds == {"absent", "garbage", "wrong"}
BadFile(L, j, c) ==
  IF c = "absent" THEN Absent
  ELSE IF c = "garbage" THEN Garbage
  ELSE WrongFormat(L, j)

\* the directory contents the loader may be started on
Disks(L, K) ==
  LET T == 1..Len(L) IN
  UNION { { [j \in T |-> IF j \in B THEN BadFile(L, j, c[j]) ELSE WellFormed(L, j)] :
              c \in [B -> K] } :
          B \in {S \in SUBSET T : Cardinality(S) <= MaxBad} }

\* ----------------------------------------------------------------- codec
Returned(o) == [exc |-> "", val |-> o]
Raised(e) == [exc |-> e, val |-> None]

\* pickle.load on an open file
pickle_load(f) ==
  IF f.kind = "pickle" THEN Returned(f.obj) ELSE Raised("UnpicklingError")

\* cPickle.load on a bz2.BZ2File
bz2_pickle_load(f) ==
  IF f.kind = "bz2" THEN Returned(f.obj) ELSE Raised("OSError")

\* _load_single_dictionary taking ".pkl" for the suffix of the raw format
_load_single_dictionary_Suffix(path, f) ==
  IF f.kind = "absent" THEN Raised("FileNotFoundError")
  ELSE IF path[3] = ".pkl" THEN pickle_load(f)
  ELSE bz2_pickle_load(f)

\* _load_single_dictionary(path) against the file found at that path
_load_single_dictionary(path, f) ==
  IF f.kind = "absent" THEN Raised("FileNotFoundError")
  ELSE IF path[3] = ".pickle" THEN pickle_load(f)
  ELSE bz2_pickle_load(f)

\* ----------------------------------------------------------------- state
VARIABLES
  disk,          \* task id -> the file at that task's path
  cls_instance,  \* DictionaryLoader._instance: None or an instance
  objects,       \* instances created so far (an instance is named by its creator)
  loaded,        \* instance -> its _loaded flag (class default False)
  attrs,         \* instance -> its logical-key attributes (the __dict__ part)
  pc,            \* thread -> position in DictionaryLoader() / the caller
  self,          \* thread -> the instance its _initialize runs on
  ret,           \* thread -> the instance its last DictionaryLoader() returned
  futures,       \* thread -> task id -> the future of that batch
  seen,          \* thread -> the futures as_completed has yielded, in order
  got,           \* the last attribute read by a consumer: the key and the outcome
  module,        \* the module's namespace: the names lines 147-158 have bound
  exit_status,   \* the status the process exits with: empty while it runs
  stdout,        \* the failure lines printed so far (lines 90 and 116)
  snapshot       \* the outcome of the last all_dictionaries call

vars == <<load_tasks, callers, disk, cls_instance, objects, loaded, attrs,
          pc, self, ret, futures, seen, got, module, exit_status, stdout,
          snapshot>>

\* fixed for the life of the process
env == <<load_tasks, callers, disk>>

\* what the module body, the interpreter and the bulk accessor leave behind
io == <<module, exit_status, stdout, snapshot>>

\* the thread that imports the module and so runs lines 147-158
MainThread == 1

NoFuture == [state |-> "NONE", exc |-> "", val |-> None]
Pending == [state |-> "PENDING", exc |-> "", val |-> None]
Running == [state |-> "RUNNING", exc |-> "", val |-> None]
Finished(r) == [state |-> "FINISHED", exc |-> r.exc, val |-> r.val]

NoRead == [key |-> "", exc |-> "", val |-> None]
NoSnapshot == [exc |-> "", val |-> <<>>, called |-> FALSE, of |-> None]

Start(L, C, K) ==
  /\ load_tasks = L
  /\ callers = C
  /\ disk \in Disks(L, K)
  /\ cls_instance = None
  /\ objects = {}
  /\ loaded = [o \in Threads |-> FALSE]
  /\ attrs = [o \in Threads |-> <<>>]
  /\ pc = [t \in Threads |-> "idle"]
  /\ self = [t \in Threads |-> None]
  /\ ret = [t \in Threads |-> None]
  /\ futures = [t \in Threads |-> [j \in 1..Len(L) |-> NoFuture]]
  /\ seen = [t \in Threads |-> <<>>]
  /\ got = NoRead
  /\ module = <<>>
  /\ exit_status = {}
  /\ stdout = {}
  /\ snapshot = NoSnapshot

\* every thread may call DictionaryLoader() against the uninitialised class;
\* a bad artifact is a missing file
Init == Start(FirstTasks(NumTasks), Threads, {"absent"})

\* two threads race for the uninitialised class: the least that makes two
\* initializations overlap, on one instance or on two
InitPair == Start(FirstTasks(NumTasks), {1, 2}, {"absent"})

\* one thread calls DictionaryLoader(), any number of times; a bad artifact
\* is missing, undecodable or in the other format
InitPool == Start(LastTasks(PoolTasks), {1}, BadKinds)

\* ----------------------------------------------------- object attributes
hasattr(o, k) == k \in DOMAIN attrs[o]
setattr(a, k, v) == [x \in DOMAIN a \cup {k} |-> IF x = k THEN v ELSE a[x]]
getattr(o, k) ==
  IF hasattr(o, k) THEN Returned(attrs[o][k]) ELSE Raised("AttributeError")

\* ------------------------------------------------------------ diagnostics
\* os.path.basename(path)
basename(path) == <<path[2], path[3]>>

\* line 116: what _load_single_dictionary prints before re-raising
Line116(path, r) ==
  IF r.exc = "" THEN {}
  ELSE {[line |-> 116, file |-> basename(path), cause |-> r.exc]}

\* line 90: what the collection loop prints for a failed future
Line90(path, e) == {[line |-> 90, file |-> basename(path), cause |-> e]}

\* ----------------------------------------------------------- module body
\* lines 147-158 have all run
ImportDone == "loader" \in DOMAIN module /\ Keys \subseteq DOMAIN module

\* thread t is not in the middle of the module body
Free(t) == t = MainThread => ImportDone

\* ------------------------------------------------------- DictionaryLoader
\* a consumer thread calls DictionaryLoader()
Call(t) ==
  /\ t \in callers
  /\ pc[t] = "idle" \/ (pc[t] = "have" /\ Free(t))
  /\ pc' = [pc EXCEPT ![t] = "L17"]
  /\ UNCHANGED <<env, io, cls_instance, objects, loaded, attrs, self, ret,
                 futures, seen, got>>

\* __new__ allocating on every call, whatever cls._instance holds
L17_AlwaysNew(t) ==
  /\ pc[t] = "L17"
  /\ pc' = [pc EXCEPT ![t] = "L18"]
  /\ UNCHANGED <<env, io, cls_instance, objects, loaded, attrs, self, ret,
                 futures, seen, got>>

\* __new__: if cls._instance is None
L17(t) ==
  /\ pc[t] = "L17"
  /\ pc' = [pc EXCEPT ![t] = IF cls_instance = None THEN "L18" ELSE "L20"]
  /\ UNCHANGED <<env, io, cls_instance, objects, loaded, attrs, self, ret,
                 futures, seen, got>>

\* __new__: cls._instance = super().__new__(cls); the object allocated by
\* thread t is named t, it has no attribute of its own and reads _loaded
\* from the class, where it is False
L18(t) ==
  /\ pc[t] = "L18"
  /\ cls_instance' = t
  /\ objects' = objects \cup {t}
  /\ loaded' = [loaded EXCEPT ![t] = FALSE]
  /\ attrs' = [attrs EXCEPT ![t] = <<>>]
  /\ pc' = [pc EXCEPT ![t] = "L19"]
  /\ UNCHANGED <<env, io, self, ret, futures, seen, got>>

\* __new__: cls._instance._initialize() reads the class attribute again
L19(t) ==
  /\ pc[t] = "L19"
  /\ self' = [self EXCEPT ![t] = cls_instance]
  /\ pc' = [pc EXCEPT ![t] = "L24"]
  /\ UNCHANGED <<env, io, cls_instance, objects, loaded, attrs, ret,
                 futures, seen, got>>

\* _initialize: if not self._loaded, then _setup_paths and the entry of
\* _load_all_dictionaries up to the creation of the executor and of the
\* empty futures dict of this call
L24(t) ==
  /\ pc[t] = "L24"
  /\ IF ~loaded[self[t]]
     THEN /\ pc' = [pc EXCEPT ![t] = "L79"]
          /\ futures' = [futures EXCEPT ![t] = [j \in TaskIds |-> NoFuture]]
          /\ seen' = [seen EXCEPT ![t] = <<>>]
     ELSE /\ pc' = [pc EXCEPT ![t] = "L20"]
          /\ UNCHANGED <<futures, seen>>
  /\ UNCHANGED <<env, io, cls_instance, objects, loaded, attrs, self, ret,
                 got>>

\* ------------------------------------------------- _load_all_dictionaries
InState(t, st) == {j \in TaskIds : futures[t][j].state = st}
AllFinished(t) == InState(t, "FINISHED") = TaskIds
Yielded(t) == {seen[t][n] : n \in 1..Len(seen[t])}

\* executor.submit(self._load_single_dictionary, path); futures[future] =
\* (path, attr_name): one iteration of the submission loop
Submit(t) ==
  /\ pc[t] = "L79"
  /\ LET j == CHOOSE x \in InState(t, "NONE") :
                \A y \in InState(t, "NONE") : x <= y
     IN /\ futures' = [futures EXCEPT ![t][j] = Pending]
        /\ pc' = [pc EXCEPT ![t] =
                    IF InState(t, "NONE") = {j} THEN "L83" ELSE "L79"]
  /\ UNCHANGED <<env, io, cls_instance, objects, loaded, attrs, self, ret,
                 seen, got>>

\* WorkerStart without the pool's limit on the number of workers
WorkerStart_Unbounded(t) ==
  /\ InState(t, "PENDING") # {}
  /\ LET j == CHOOSE x \in InState(t, "PENDING") :
                \A y \in InState(t, "PENDING") : x <= y
     IN futures' = [futures EXCEPT ![t][j] = Running]
  /\ UNCHANGED <<env, io, cls_instance, objects, loaded, attrs, pc, self, ret,
                 seen, got>>

\* WorkerStart with workers that take one work item each and then stop
WorkerStart_NoReuse(t) ==
  /\ InState(t, "PENDING") # {}
  /\ Cardinality(InState(t, "RUNNING") \cup InState(t, "FINISHED")) < max_workers
  /\ LET j == CHOOSE x \in InState(t, "PENDING") :
                \A y \in InState(t, "PENDING") : x <= y
     IN futures' = [futures EXCEPT ![t][j] = Running]
  /\ UNCHANGED <<env, io, cls_instance, objects, loaded, attrs, pc, self, ret,
                 seen, got>>

\* a pool worker takes the oldest queued work item; the pool never has more
\* than max_workers workers, and each runs one item at a time
WorkerStart(t) ==
  /\ InState(t, "PENDING") # {}
  /\ Cardinality(InState(t, "RUNNING")) < max_workers
  /\ LET j == CHOOSE x \in InState(t, "PENDING") :
                \A y \in InState(t, "PENDING") : x <= y
     IN futures' = [futures EXCEPT ![t][j] = Running]
  /\ UNCHANGED <<env, io, cls_instance, objects, loaded, attrs, pc, self, ret,
                 seen, got>>

\* WorkerFinish that puts a work item whose decode raised back in the queue
WorkerFinish_Retry(t, j) ==
  /\ futures[t][j].state = "RUNNING"
  /\ futures' = [futures EXCEPT ![t][j] =
                   IF _load_single_dictionary(PathOf(j), disk[j]).exc = ""
                   THEN Finished(_load_single_dictionary(PathOf(j), disk[j]))
                   ELSE Pending]
  /\ stdout' = stdout \cup
                 Line116(PathOf(j), _load_single_dictionary(PathOf(j), disk[j]))
  /\ UNCHANGED <<env, module, exit_status, snapshot, cls_instance, objects,
                 loaded, attrs, pc, self, ret, seen, got>>

\* WorkerFinish with the worker storing its payload on the instance itself
WorkerFinish_Writes(t, j) ==
  /\ futures[t][j].state = "RUNNING"
  /\ futures' = [futures EXCEPT ![t][j] =
                   Finished(_load_single_dictionary(PathOf(j), disk[j]))]
  /\ attrs' = IF _load_single_dictionary(PathOf(j), disk[j]).exc = ""
              THEN [attrs EXCEPT ![self[t]] =
                      setattr(@, AttrOf(j),
                              _load_single_dictionary(PathOf(j), disk[j]).val)]
              ELSE attrs
  /\ stdout' = stdout \cup
                 Line116(PathOf(j), _load_single_dictionary(PathOf(j), disk[j]))
  /\ UNCHANGED <<env, module, exit_status, snapshot, cls_instance, objects,
                 loaded, pc, self, ret, seen, got>>

\* the worker's call of _load_single_dictionary returns or raises, and the
\* future takes the result or the exception
WorkerFinish(t, j) ==
  /\ futures[t][j].state = "RUNNING"
  /\ futures' = [futures EXCEPT ![t][j] =
                   Finished(_load_single_dictionary(PathOf(j), disk[j]))]
  /\ stdout' = stdout \cup
                 Line116(PathOf(j), _load_single_dictionary(PathOf(j), disk[j]))
  /\ UNCHANGED <<env, module, exit_status, snapshot, cls_instance, objects,
                 loaded, attrs, pc, self, ret, seen, got>>

\* Collect storing the n-th completed result under the n-th registry key
Collect_ByPosition(t, j) ==
  /\ pc[t] = "L83"
  /\ futures[t][j].state = "FINISHED"
  /\ j \notin Yielded(t)
  /\ seen' = [seen EXCEPT ![t] = Append(@, j)]
  /\ IF futures[t][j].exc = ""
     THEN /\ attrs' = [attrs EXCEPT ![self[t]] =
                         setattr(@, AttrOf(Len(seen[t]) + 1), futures[t][j].val)]
          /\ pc' = [pc EXCEPT ![t] =
                      IF Yielded(t) \cup {j} = TaskIds THEN "L92" ELSE "L83"]
     ELSE /\ attrs' = attrs
          /\ pc' = [pc EXCEPT ![t] = "L91"]
  /\ stdout' = IF futures[t][j].exc = "" THEN stdout
               ELSE stdout \cup Line90(PathOf(j), futures[t][j].exc)
  /\ UNCHANGED <<env, module, exit_status, snapshot, cls_instance, objects,
                 loaded, self, ret, futures, got>>

\* Collect using the attribute name left over from the submission loop
Collect_StaleName(t, j) ==
  /\ pc[t] = "L83"
  /\ futures[t][j].state = "FINISHED"
  /\ j \notin Yielded(t)
  /\ seen' = [seen EXCEPT ![t] = Append(@, j)]
  /\ IF futures[t][j].exc = ""
     THEN /\ attrs' = [attrs EXCEPT ![self[t]] =
                         setattr(@, AttrOf(Len(load_tasks)), futures[t][j].val)]
          /\ pc' = [pc EXCEPT ![t] =
                      IF Yielded(t) \cup {j} = TaskIds THEN "L92" ELSE "L83"]
     ELSE /\ attrs' = attrs
          /\ pc' = [pc EXCEPT ![t] = "L91"]
  /\ stdout' = IF futures[t][j].exc = "" THEN stdout
               ELSE stdout \cup Line90(PathOf(j), futures[t][j].exc)
  /\ UNCHANGED <<env, module, exit_status, snapshot, cls_instance, objects,
                 loaded, self, ret, futures, got>>

\* Collect that leaves the loop with break instead of sys.exit(1)
Collect_Break(t, j) ==
  /\ pc[t] = "L83"
  /\ futures[t][j].state = "FINISHED"
  /\ j \notin Yielded(t)
  /\ seen' = [seen EXCEPT ![t] = Append(@, j)]
  /\ IF futures[t][j].exc = ""
     THEN /\ attrs' = [attrs EXCEPT ![self[t]] =
                         setattr(@, AttrOf(j), futures[t][j].val)]
          /\ pc' = [pc EXCEPT ![t] =
                      IF Yielded(t) \cup {j} = TaskIds THEN "L92" ELSE "L83"]
     ELSE /\ attrs' = attrs
          /\ pc' = [pc EXCEPT ![t] = "L92"]
  /\ stdout' = IF futures[t][j].exc = "" THEN stdout
               ELSE stdout \cup Line90(PathOf(j), futures[t][j].exc)
  /\ UNCHANGED <<env, module, exit_status, snapshot, cls_instance, objects,
                 loaded, self, ret, futures, got>>

\* Collect that reports a failed future and goes on with the loop
Collect_NoExit(t, j) ==
  /\ pc[t] = "L83"
  /\ futures[t][j].state = "FINISHED"
  /\ j \notin Yielded(t)
  /\ seen' = [seen EXCEPT ![t] = Append(@, j)]
  /\ attrs' = IF futures[t][j].exc = ""
              THEN [attrs EXCEPT ![self[t]] =
                      setattr(@, AttrOf(j), futures[t][j].val)]
              ELSE attrs
  /\ pc' = [pc EXCEPT ![t] =
              IF Yielded(t) \cup {j} = TaskIds THEN "L92" ELSE "L83"]
  /\ stdout' = IF futures[t][j].exc = "" THEN stdout
               ELSE stdout \cup Line90(PathOf(j), futures[t][j].exc)
  /\ UNCHANGED <<env, module, exit_status, snapshot, cls_instance, objects,
                 loaded, self, ret, futures, got>>

\* one iteration of "for future in as_completed(futures)": a finished future
\* not yet yielded is yielded; its result is stored under the attribute name
\* the futures map binds to it, or its exception ends the loop by sys.exit(1)
Collect(t, j) ==
  /\ pc[t] = "L83"
  /\ futures[t][j].state = "FINISHED"
  /\ j \notin Yielded(t)
  /\ seen' = [seen EXCEPT ![t] = Append(@, j)]
  /\ IF futures[t][j].exc = ""
     THEN /\ attrs' = [attrs EXCEPT ![self[t]] =
                         setattr(@, AttrOf(j), futures[t][j].val)]
          /\ pc' = [pc EXCEPT ![t] =
                      IF Yielded(t) \cup {j} = TaskIds THEN "L92" ELSE "L83"]
     ELSE /\ attrs' = attrs
          /\ pc' = [pc EXCEPT ![t] = "L91"]
  /\ stdout' = IF futures[t][j].exc = "" THEN stdout
               ELSE stdout \cup Line90(PathOf(j), futures[t][j].exc)
  /\ UNCHANGED <<env, module, exit_status, snapshot, cls_instance, objects,
                 loaded, self, ret, futures, got>>

\* the with block is left normally: executor.shutdown(wait=True) returns
\* once every work item has run
ExitWith(t) ==
  /\ pc[t] = "L92"
  /\ AllFinished(t)
  /\ pc' = [pc EXCEPT ![t] = "L27"]
  /\ UNCHANGED <<env, io, cls_instance, objects, loaded, attrs, self, ret,
                 futures, seen, got>>

\* the failure path returning to _initialize instead of exiting
SysExit_Returns(t) ==
  /\ pc[t] = "L91"
  /\ AllFinished(t)
  /\ pc' = [pc EXCEPT ![t] = "L27"]
  /\ UNCHANGED <<env, io, cls_instance, objects, loaded, attrs, self, ret,
                 futures, seen, got>>

\* SystemExit unwinding the caller without the executor's shutdown wait
SysExit_NoWait(t) ==
  /\ pc[t] = "L91"
  /\ pc' = [pc EXCEPT ![t] = "exited"]
  /\ exit_status' = IF t = MainThread THEN {1} ELSE exit_status
  /\ UNCHANGED <<env, module, stdout, snapshot, cls_instance, objects, loaded,
                 attrs, self, ret, futures, seen, got>>

\* sys.exit(1) raised SystemExit inside the with block: the executor's
\* __exit__ waits (shutdown(wait=True), nothing is cancelled) for every work
\* item, queued ones included, and then SystemExit unwinds the calling thread;
\* in the main thread it ends the process with status 1, in any other thread
\* it ends that thread only
SysExit(t) ==
  /\ pc[t] = "L91"
  /\ AllFinished(t)
  /\ pc' = [pc EXCEPT ![t] = "exited"]
  /\ exit_status' = IF t = MainThread THEN {1} ELSE exit_status
  /\ UNCHANGED <<env, module, stdout, snapshot, cls_instance, objects, loaded,
                 attrs, self, ret, futures, seen, got>>

\* _initialize: self._loaded = True
L27(t) ==
  /\ pc[t] = "L27"
  /\ loaded' = [loaded EXCEPT ![self[t]] = TRUE]
  /\ pc' = [pc EXCEPT ![t] = "L20"]
  /\ UNCHANGED <<env, io, cls_instance, objects, attrs, self, ret,
                 futures, seen, got>>

\* __new__: return cls._instance
L20(t) ==
  /\ pc[t] = "L20"
  /\ ret' = [ret EXCEPT ![t] = cls_instance]
  /\ pc' = [pc EXCEPT ![t] = "have"]
  /\ UNCHANGED <<env, io, cls_instance, objects, loaded, attrs, self,
                 futures, seen, got>>

\* a consumer reads a logical-key attribute of the instance it was handed
Read(t, k) ==
  /\ pc[t] = "have"
  /\ Free(t)
  /\ got' = [key |-> k, exc |-> getattr(ret[t], k).exc,
             val |-> getattr(ret[t], k).val]
  /\ UNCHANGED <<env, io, cls_instance, objects, loaded, attrs, pc, self, ret,
                 futures, seen>>

\* all_dictionaries reading only the keys the instance holds
all_dictionaries_Present(o) ==
  [exc |-> "", val |-> [k \in Keys \cap DOMAIN attrs[o] |-> attrs[o][k]],
   called |-> TRUE, of |-> o]

\* the all_dictionaries property on instance o: a dict display that reads
\* every logical key in turn, so a missing one raises AttributeError
all_dictionaries(o) ==
  IF Keys \subseteq DOMAIN attrs[o]
  THEN [exc |-> "", val |-> [k \in Keys |-> attrs[o][k]],
        called |-> TRUE, of |-> o]
  ELSE [exc |-> "AttributeError", val |-> <<>>, called |-> TRUE, of |-> o]

\* a consumer reads all_dictionaries of the instance it was handed
AllDictionaries(t) ==
  /\ pc[t] = "have"
  /\ Free(t)
  /\ snapshot' = all_dictionaries(ret[t])
  /\ UNCHANGED <<env, module, exit_status, stdout, cls_instance, objects,
                 loaded, attrs, pc, self, ret, futures, seen, got>>

\* line 147: loader = DictionaryLoader() binds the returned instance
L147(t) ==
  /\ t = MainThread
  /\ pc[t] = "have"
  /\ "loader" \notin DOMAIN module
  /\ module' = setattr(module, "loader", ret[t])
  /\ UNCHANGED <<env, exit_status, stdout, snapshot, cls_instance, objects,
                 loaded, attrs, pc, self, ret, futures, seen, got>>

\* lines 148-158: the next "<key> = loader.<key>" of the module body; an
\* AttributeError is not caught and ends the main thread with status 1
L148(t) ==
  /\ t = MainThread
  /\ pc[t] = "have"
  /\ "loader" \in DOMAIN module
  /\ ~ImportDone
  /\ LET j == CHOOSE x \in TaskIds :
                /\ AttrOf(x) \notin DOMAIN module
                /\ \A y \in TaskIds : AttrOf(y) \notin DOMAIN module => x <= y
         r == getattr(module["loader"], AttrOf(j))
     IN IF r.exc = ""
        THEN /\ module' = setattr(module, AttrOf(j), r.val)
             /\ UNCHANGED <<pc, exit_status>>
        ELSE /\ pc' = [pc EXCEPT ![t] = "exited"]
             /\ exit_status' = {1}
             /\ module' = module
  /\ UNCHANGED <<env, stdout, snapshot, cls_instance, objects, loaded, attrs,
                 self, ret, futures, seen, got>>

Next ==
  \E t \in Threads :
    \/ Call(t)
    \/ L17(t)
    \/ L18(t)
    \/ L19(t)
    \/ L24(t)
    \/ Submit(t)
    \/ WorkerStart(t)
    \/ \E j \in TaskIds : WorkerFinish(t, j)
    \/ \E j \in TaskIds : Collect(t, j)
    \/ ExitWith(t)
    \/ SysExit(t)
    \/ L27(t)
    \/ L20(t)
    \/ \E k \in Keys : Read(t, k)
    \/ AllDictionaries(t)
    \/ L147(t)
    \/ L148(t)

Spec == Init /\ [][Next]_vars
SpecPair == InitPair /\ [][Next]_vars
SpecPool == InitPool /\ [][Next]_vars

\* the steps of thread t inside DictionaryLoader(), from line 17 to line 20
InCall(t) ==
  \/ L17(t) \/ L18(t) \/ L19(t) \/ L24(t) \/ Submit(t)
  \/ \E j \in TaskIds : Collect(t, j)
  \/ ExitWith(t) \/ SysExit(t) \/ L27(t) \/ L20(t)

\* the steps of the pool that serves the batch of thread t
InPool(t) ==
  \/ WorkerStart(t)
  \/ \E j \in TaskIds : WorkerFinish(t, j)

\* a thread inside the call keeps being scheduled, and the pool of a batch
\* keeps working while it has a queued item and an idle worker or a decode
\* in progress
Fairness ==
  \A t \in Threads : WF_vars(InCall(t)) /\ WF_vars(InPool(t))

\* one importing thread and the artifacts of InitPool, where a bad artifact
\* is a file that neither codec can decode
InitFair == Start(LastTasks(PoolTasks), {MainThread}, {"garbage"})

\* one batch on a pool smaller than its task list, with fair scheduling of
\* the caller and of the pool's workers
FairSpecPool == InitFair /\ [][Next]_vars /\ Fairness

TypeOK ==
  /\ cls_instance \in Threads \cup {None}
  /\ objects \subseteq Threads
  /\ \A o \in Threads : DOMAIN attrs[o] \subseteq Keys

\* ---------------------------------------------------------- derived state
\* the batch of thread t has entered _load_all_dictionaries
Entered(t) ==
  pc[t] = "L79" \/ \E j \in TaskIds : futures[t][j].state # "NONE"

\* how often the file of task j has been opened (open / bz2.BZ2File run only
\* when os.path.exists(path) holds)
Opens(j) ==
  Cardinality({t \in Threads :
                 /\ futures[t][j].state \in {"RUNNING", "FINISHED"}
                 /\ disk[j].kind # "absent"})

\* the collection loop of t has handled a failed future (lines 89-91)
Reported(t) ==
  \E n \in 1..Len(seen[t]) : futures[t][seen[t][n]].exc # ""

\* an initialization of instance o ended in sys.exit(1): the Failed state
Failed(o) ==
  \E t \in Threads :
    self[t] = o /\ Reported(t) /\ pc[t] \in {"L91", "exited"}

\* the batch of t ran to its end and t has executed self._loaded = True
\* (the main thread may have ended since, in the module body)
Flagged(t) ==
  /\ seen[t] # <<>>
  /\ ~Reported(t)
  /\ pc[t] \in {"L20", "have", "L17", "exited"}

\* how often the batch of t assigned key k (setattr at line 87)
Assignments(t, k) ==
  Cardinality({n \in 1..Len(seen[t]) :
                 AttrOf(seen[t][n]) = k /\ futures[t][seen[t][n]].exc = ""})

\* ------------------------------------------------------------------ claims

\* C1: a consumer that has obtained the cache instance from DictionaryLoader()
\* finds every logical key populated; it never holds an instance on which
\* only some, or none, of the keys have been set.
C1_NoPartiallyPopulatedCache ==
  \A t \in Threads :
    pc[t] = "have" => \A k \in Keys : hasattr(ret[t], k)

\* C2: initialization runs at most once per process: at most one thread
\* executes _load_all_dictionaries, every artifact file is opened at most
\* once, and all callers that have returned hold the same instance.
C2_InitializedOnce ==
  /\ Cardinality({t \in Threads : Entered(t)}) <= 1
  /\ \A j \in TaskIds : Opens(j) <= 1
  /\ \A t, u \in Threads :
       pc[t] = "have" /\ pc[u] = "have" => ret[t] = ret[u]

\* C3: an initialization that failed never becomes ready and leaves nothing
\* readable: on an instance whose initialization ended in Failed, _loaded is
\* false and a read of any key fails.
C3_FailFastNoPartialResult ==
  \A o \in objects :
    Failed(o) =>
      /\ ~loaded[o]
      /\ \A k \in Keys : getattr(o, k) = Raised("AttributeError")

\* C4: whenever an instance is considered ready (_loaded is true) it holds
\* exactly the keys of the registry, and every initialization that has set
\* _loaded assigned each declared key exactly once.
C4_ReadyHasOneOutcomePerKey ==
  /\ \A o \in objects :
       loaded[o] =>
         /\ DOMAIN attrs[o] = Keys
         /\ \E t \in Threads : self[t] = o /\ Flagged(t)
  /\ \A t \in Threads :
       Flagged(t) => \A k \in Keys : Assignments(t, k) = 1

\* C4 witness: an instance is ready on which two racing initializations
\* both ran to their end
C4_Witness ==
  \E o \in objects :
    /\ loaded[o]
    /\ \E t, u \in Threads :
         t # u /\ self[t] = o /\ self[u] = o /\ Flagged(t) /\ Flagged(u)

\* C5: when every declared file is well-formed, a ready instance holds under
\* each logical key exactly what decoding that key's own path returns.
C5_KeyHoldsItsOwnArtifact ==
  (\A j \in TaskIds : disk[j] = WellFormed(load_tasks, j)) =>
    \A o \in objects :
      loaded[o] =>
        \A j \in TaskIds :
          getattr(o, AttrOf(j)) = _load_single_dictionary(PathOf(j), disk[j])

\* C5 witness: a ready instance whose tasks completed in an order other
\* than the registry's, raw and compressed artifacts among them
C5_Witness ==
  \E t \in Threads :
    /\ self[t] # None
    /\ loaded[self[t]]
    /\ Len(seen[t]) = Len(load_tasks)
    /\ seen[t][1] # 1
    /\ \E i, j \in TaskIds : PathOf(i)[3] = ".pickle" /\ PathOf(j)[3] = ".pbz2"

\* C6: any two initializations that ran to their end on the same files,
\* whatever the order in which their tasks completed, leave identical cache
\* contents under every logical key.
C6_CompletionOrderIndependent ==
  \A t, u \in Threads :
    Flagged(t) /\ Flagged(u) => attrs[self[t]] = attrs[self[u]]

\* C6 witness: two initializations of two distinct instances have both
\* succeeded, their futures having completed in different orders
C6_Witness ==
  \E t, u \in Threads :
    /\ Flagged(t) /\ Flagged(u)
    /\ self[t] # self[u]
    /\ loaded[self[t]] /\ loaded[self[u]]
    /\ seen[t] # seen[u]

\* C7: once the collection loop has handled the first failed future, no
\* task of that batch that is still queued starts running.
C7_NoTaskStartsAfterFailure ==
  [][\A t \in Threads :
       Reported(t) =>
         \A j \in TaskIds :
           futures[t][j].state = "PENDING" => futures'[t][j].state = "PENDING"]_vars

\* C8: every assignment of a logical-key attribute is made by the collection
\* loop of a batch that has not reported a failure: from the step that
\* handles its first failed future onward, a batch assigns nothing.
C8_NoAssignmentAfterFailure ==
  [][attrs' # attrs =>
       \E u \in Threads : seen'[u] # seen[u] /\ ~Reported(u)]_vars

\* C8 witness: a batch has reported a failure and its thread has exited,
\* while a sibling task completed successfully and was never assigned
C8_Witness ==
  \E t \in Threads :
    /\ pc[t] = "exited"
    /\ Reported(t)
    /\ \E j \in TaskIds :
         /\ futures[t][j].state = "FINISHED"
         /\ futures[t][j].exc = ""
         /\ j \notin Yielded(t)
         /\ ~hasattr(self[t], AttrOf(j))

\* C9: at most max_workers decode tasks of an initialization are running
\* at the same time.
C9_BoundedConcurrency ==
  \A t \in Threads : Cardinality(InState(t, "RUNNING")) <= max_workers

\* C9 witness: max_workers tasks are running and another is still queued
C9_Witness ==
  \E t \in Threads :
    /\ Cardinality(InState(t, "RUNNING")) = max_workers
    /\ InState(t, "PENDING") # {}

\* C10: Ready and Failed are terminal: a ready instance stays ready, no
\* initialization is in progress on it and none of its keys is assigned again;
\* a failed instance never becomes ready; and no DictionaryLoader() call
\* returns a failed instance to its caller.
C10_TerminalStates ==
  [][/\ \A o \in objects :
          loaded[o] =>
            /\ loaded'[o]
            /\ attrs'[o] = attrs[o]
            /\ \A t \in Threads : self[t] = o => seen'[t] = seen[t]
     /\ \A o \in objects : Failed(o) => ~loaded'[o]
     /\ \A t \in Threads :
          pc'[t] = "have" => ~(Failed(ret[t]))']_vars

\* C11: in a startup in which a load failed, a line naming the failing
\* artifact and its cause has been printed, none of the module-level names
\* is bound, and the process ends with exit status 1 and no other.
C11_FailedStartupBindsNothing ==
  /\ exit_status \subseteq {1}
  /\ \A t \in Threads :
       Reported(t) =>
         /\ DOMAIN module = {}
         /\ \E j \in TaskIds :
              /\ disk[j] # WellFormed(load_tasks, j)
              /\ Line90(PathOf(j),
                        _load_single_dictionary(PathOf(j), disk[j]).exc)
                   \subseteq stdout
         /\ pc[t] = "exited" => exit_status = {1}

\* C11 witness: the importing thread has exited on a failed load after
\* other artifacts had already been stored on the instance
C11_Witness ==
  /\ pc[MainThread] = "exited"
  /\ Reported(MainThread)
  /\ exit_status = {1}
  /\ DOMAIN attrs[self[MainThread]] # {}
  /\ DOMAIN module = {}

\* C12: within one initialization a decode is attempted at most once per
\* artifact: a running task only finishes, a finished future is never run or
\* changed again, and a batch that holds a failed future never gets past its
\* collection loop except by exiting.
C12_NoRetries ==
  [][\A t \in Threads : \A j \in TaskIds :
       /\ futures[t][j].state = "RUNNING" =>
            futures'[t][j].state \in {"RUNNING", "FINISHED"}
       /\ futures[t][j].state = "FINISHED" => futures'[t][j] = futures[t][j]
       /\ futures[t][j].state = "FINISHED" /\ futures[t][j].exc # "" =>
            pc'[t] \in {"L79", "L83", "L91", "exited"}]_vars

\* C12 witness: a decode failed, its future stayed failed, and the batch
\* ended in exit
C12_Witness ==
  \E t \in Threads : \E j \in TaskIds :
    /\ futures[t][j].state = "FINISHED"
    /\ futures[t][j].exc # ""
    /\ AllFinished(t)
    /\ pc[t] = "exited"

C14_SnapshotOnlyWhenComplete ==
  /\ snapshot.called /\ snapshot.exc = "" =>
       /\ DOMAIN snapshot.val = Keys
       /\ \A k \in Keys : /\ hasattr(snapshot.of, k)
                          /\ snapshot.val[k] = attrs[snapshot.of][k]
  /\ snapshot.called /\ snapshot.exc # "" => snapshot.val = <<>>
  /\ snapshot.called /\ ~(Keys \subseteq DOMAIN attrs[snapshot.of]) =>
       snapshot.exc = "AttributeError"

\* C14 witness: all_dictionaries was called on an instance holding some but
\* not all of the keys, and raised
C14_Witness ==
  /\ snapshot.called
  /\ snapshot.exc = "AttributeError"
  /\ DOMAIN attrs[snapshot.of] # {}
  /\ ~(Keys \subseteq DOMAIN attrs[snapshot.of])

\* C15: once an initialization has succeeded, no step of a later
\* DictionaryLoader() call of the same thread replaces the instance, changes
\* a payload, submits or runs a decode, or opens a file; and the call
\* returns the instance that was initialized.
C15_ConstructionIdempotent ==
  [][\A o \in objects :
       loaded[o] /\ cls_instance = o =>
         /\ cls_instance' = o
         /\ loaded'[o]
         /\ attrs' = attrs
         /\ futures' = futures
         /\ \A j \in TaskIds : Opens(j)' = Opens(j)
         /\ \A t \in callers :
              pc[t] = "L20" /\ pc'[t] = "have" => ret'[t] = o]_vars

\* C15 witness: after the import, a further call is about to return the
\* instance that the first call initialized and returned
C15_Witness ==
  \E t \in callers :
    /\ ImportDone
    /\ pc[t] = "L20"
    /\ ret[t] = cls_instance
    /\ loaded[ret[t]]
    /\ Keys \subseteq DOMAIN attrs[ret[t]]

\* C16: every step that changes an attribute of a cache instance is a step
\* of the collection loop of one thread: it changes no future (it is not a
\* worker's step), it handles one completed future of that thread's batch
\* and sets the one key of that future on the thread's instance, and no
\* other loop advances in the same step.
C16_SingleWriter ==
  [][attrs' # attrs =>
       /\ futures' = futures
       /\ \E t \in Threads : \E j \in TaskIds :
            /\ pc[t] = "L83"
            /\ futures[t][j].state = "FINISHED"
            /\ futures[t][j].exc = ""
            /\ seen'[t] = Append(seen[t], j)
            /\ \A u \in Threads \ {t} : seen'[u] = seen[u]
            /\ attrs' = [attrs EXCEPT ![self[t]] =
                           setattr(@, AttrOf(j), futures[t][j].val)]]_vars

\* C16 witness: the collection loop has assigned a key while a worker of
\* the same batch is still decoding another artifact
C16_Witness ==
  \E t \in Threads : \E j, r \in TaskIds :
    /\ pc[t] = "L83"
    /\ seen[t] = <<j>>
    /\ hasattr(self[t], AttrOf(j))
    /\ futures[t][r].state = "RUNNING"

\* C17: once a thread has left _load_all_dictionaries, by its normal return
\* or by the SystemExit of the failure path, every task its batch submitted
\* has finished: none is queued or running.
C17_QuiescentAtBatchBoundary ==
  \A t \in Threads :
    Entered(t) /\ pc[t] \notin {"L79", "L83", "L91", "L92"} =>
      /\ AllFinished(t)
      /\ InState(t, "PENDING") \cup InState(t, "RUNNING") = {}

\* C17 witness: a batch was left through sys.exit(1) with completed tasks
\* the collection loop never got to
C17_Witness ==
  \E t \in Threads :
    /\ pc[t] = "exited"
    /\ AllFinished(t)
    /\ Len(seen[t]) < Cardinality(TaskIds)
    /\ \E j \in TaskIds \ Yielded(t) : futures[t][j].exc = ""

\* C18: under fair scheduling, every batch that has entered
\* _load_all_dictionaries ends, with self._loaded = True executed or with
\* the calling thread exited, and every task that was submitted is
\* eventually finished.
C18_InitializationTerminates ==
  \A t \in Threads :
    (pc[t] = "L79") ~> /\ Flagged(t) \/ (Reported(t) /\ pc[t] = "exited")
                       /\ AllFinished(t)

\* C18 witness: a batch with more tasks than workers has run to its end and
\* the instance is flagged as loaded with every key set
C18_Witness ==
  \E t \in Threads :
    /\ Cardinality(TaskIds) > max_workers
    /\ Flagged(t)
    /\ loaded[self[t]]
    /\ AllFinished(t)
    /\ Keys \subseteq DOMAIN attrs[self[t]]

====
